---- MODULE Spec2Model ----
(***************************************************************************)
(* Underline inline tool (src/src/index.ts) over a document tree.          *)
(*                                                                         *)
(* The document is the content of one editable block, kept as the sequence *)
(* of its tokens in document order: every node contributes an open token,  *)
(* its content and a close token; a Text node contributes its characters.  *)
(* Every gap between two tokens (0..Len(doc)) is exactly one DOM boundary  *)
(* point: a gap inside a Text node is (text, offset), a gap between two    *)
(* sibling nodes is (parent, index).  Range.extractContents, insertNode,   *)
(* removeChild and the Selection methods follow the DOM standard; the      *)
(* host's selection.findParentTag / selection.expandToTag follow the       *)
(* editor's SelectionUtils.                                                *)
(***************************************************************************)
EXTENDS Integers, Sequences, FiniteSets, TLC

VARIABLES
    doc,        \* the block's content, as tokens
    sel,        \* window.getSelection(): null, without a range, or one range
    buttons,    \* every button render() has created, in creation order
    button,     \* this.button: index into buttons, 0 = undefined
    last,       \* what the last call did (its name and outcome)
    ret,        \* the last value checkState() returned
    pre,        \* the document before the last call of surround or unwrap
    picked,     \* the text the selection covered when surround was called
    prev,       \* what the call before the last did, when both were surround
    stale,      \* a wrapper that unwrap removed is still referenced by a caller
    ops,        \* number of calls that changed the document
    sanIn,      \* the element handed to the sanitizer
    sanOut      \* what the sanitizer made of it

vars == <<doc, sel, buttons, button, last, ret, pre, picked, prev, stale, ops, sanIn, sanOut>>

(* ---------------------------- bounds ---------------------------------- *)
MaxOps == 4
MaxRenders == 2

(* --------------------------- constants -------------------------------- *)
CSS == "cdx-underline"
tag == "U"
iconClasses == [base |-> "ce-inline-tool", active |-> "ce-inline-tool--active"]
SearchDepth == 10

(* ------------------------------ tokens -------------------------------- *)
TextOpen == [k |-> "to", tag |-> "#text", attrs |-> {}]
TextClose == [k |-> "tc", tag |-> "#text", attrs |-> {}]
Ch(c) == [k |-> "ch", tag |-> c, attrs |-> {}]
ElOpen(t, a) == [k |-> "eo", tag |-> t, attrs |-> a]
ElClose(t) == [k |-> "ec", tag |-> t, attrs |-> {}]

IsOpen(t) == t.k \in {"to", "eo"}
IsClose(t) == t.k \in {"tc", "ec"}
CloseOf(t) == IF t.k = "to" THEN TextClose ELSE ElClose(t.tag)

Min(a, b) == IF a <= b THEN a ELSE b
Max(a, b) == IF a <= b THEN b ELSE a

\* classList.contains(c): the class attribute holds one class in this model
HasClass(t, c) == <<"class", c>> \in t.attrs

\* a node that wrap() made: tag U carrying the class cdx-underline
IsWrapper(t) == t.k = "eo" /\ t.tag = tag /\ HasClass(t, CSS)

(* ------------------------ tree navigation ----------------------------- *)
\* the open tokens (by position) of the nodes that enclose gap g, outermost first
RECURSIVE Stack(_, _)
Stack(d, g) ==
    IF g = 0 THEN <<>>
    ELSE LET s == Stack(d, g - 1)
         IN  IF IsOpen(d[g]) THEN Append(s, g)
             ELSE IF IsClose(d[g]) THEN SubSeq(s, 1, Len(s) - 1)
             ELSE s

\* position of the close token of the node opened at p
CloseAt(d, p) ==
    CHOOSE q \in (p + 1)..Len(d) :
        /\ Len(Stack(d, q)) = Len(Stack(d, p)) - 1
        /\ \A r \in p..(q - 1) : Len(Stack(d, r)) >= Len(Stack(d, p))

\* length of the longest common prefix of two stacks
RECURSIVE Common(_, _)
Common(s, t) ==
    IF s = <<>> \/ t = <<>> \/ Head(s) # Head(t) THEN 0
    ELSE 1 + Common(Tail(s), Tail(t))

RECURSIVE Reverse(_)
Reverse(s) == IF s = <<>> THEN <<>> ELSE Append(Reverse(Tail(s)), Head(s))

\* textContent
RECURSIVE Text(_)
Text(d) ==
    IF d = <<>> THEN <<>>
    ELSE IF Head(d).k = "ch" THEN <<Head(d).tag>> \o Text(Tail(d))
    ELSE Text(Tail(d))

\* number of wrappers around gap g
WrapDepth(d, g) == Cardinality({i \in 1..Len(Stack(d, g)) : IsWrapper(d[Stack(d, g)[i]])})

\* for each character of the text, the number of wrappers around it
Underlined(d) ==
    LET cs == {i \in 1..Len(d) : d[i].k = "ch"}
        nth(n) == CHOOSE i \in cs : Cardinality({j \in cs : j < i}) = n - 1
    IN  [n \in 1..Cardinality(cs) |-> WrapDepth(d, nth(n))]

Wrappers(d) == {p \in 1..Len(d) : IsWrapper(d[p])}

(* ------------------------------ Range --------------------------------- *)
\* Range.cloneContents(): the fragment is a copy and the document keeps its content
ExtractContentsCopy(d, s, e) ==
    LET ss == Stack(d, s)
        se == Stack(d, e)
        c == Common(ss, se)
        opens(ps) == [i \in 1..Len(ps) |-> d[ps[i]]]
        closes(ps) == [i \in 1..Len(ps) |-> CloseOf(d[ps[Len(ps) + 1 - i]])]
    IN  [doc |-> d,
         frag |-> opens(SubSeq(ss, c + 1, Len(ss))) \o SubSeq(d, s + 1, e)
                    \o closes(SubSeq(se, c + 1, Len(se))),
         point |-> s]

\* Range.extractContents() of the range from gap s to gap e (s <= e).
\* Nodes that hold only one of the two boundary points are partially
\* contained: the original keeps what lies outside the range and a clone,
\* placed in the fragment, receives what lies inside.  The range is left
\* collapsed at point.
ExtractContents(d, s, e) ==
    LET ss == Stack(d, s)
        se == Stack(d, e)
        c == Common(ss, se)
        startPartial == SubSeq(ss, c + 1, Len(ss))
        endPartial == SubSeq(se, c + 1, Len(se))
        slice == SubSeq(d, s + 1, e)
        opens(ps) == [i \in 1..Len(ps) |-> d[ps[i]]]
        closes(ps) == [i \in 1..Len(ps) |-> CloseOf(d[ps[Len(ps) + 1 - i]])]
        sameText == ss # <<>> /\ ss = se /\ d[ss[Len(ss)]].k = "to"
    IN  IF s = e THEN [doc |-> d, frag |-> <<>>, point |-> s]
        ELSE IF sameText THEN
            [doc |-> SubSeq(d, 1, s) \o SubSeq(d, e + 1, Len(d)),
             frag |-> <<TextOpen>> \o slice \o <<TextClose>>,
             point |-> s]
        ELSE
            [doc |-> SubSeq(d, 1, s) \o closes(startPartial)
                       \o opens(endPartial) \o SubSeq(d, e + 1, Len(d)),
             frag |-> opens(startPartial) \o slice \o closes(endPartial),
             point |-> s + Len(startPartial)]

\* Range.insertNode(n) of a range whose start is gap g: a Text node that
\* holds the start is split there; n goes in at the start and a collapsed
\* range is extended to end behind it.  at is the position of n's first token.
InsertNode(d, g, n) ==
    LET st == Stack(d, g)
        inText == st # <<>> /\ d[st[Len(st)]].k = "to"
    IN  IF inText THEN
            [doc |-> SubSeq(d, 1, g) \o <<TextClose>> \o n \o <<TextOpen>>
                       \o SubSeq(d, g + 1, Len(d)),
             s |-> g, e |-> g + 1 + Len(n), at |-> g + 2]
        ELSE
            [doc |-> SubSeq(d, 1, g) \o n \o SubSeq(d, g + 1, Len(d)),
             s |-> g, e |-> g + Len(n), at |-> g + 1]

\* parentNode.removeChild(node) of the node opened at w, and where a live
\* range boundary at gap g lies afterwards
RemoveChild(d, w) == SubSeq(d, 1, w - 1) \o SubSeq(d, CloseAt(d, w) + 1, Len(d))
AfterRemove(d, w, g) ==
    IF g < w THEN g
    ELSE IF g < CloseAt(d, w) THEN w - 1
    ELSE g - (CloseAt(d, w) - w + 1)

(* ---------------------------- Selection ------------------------------- *)
NullSel == [kind |-> "null", a |-> 0, f |-> 0]
NoRange == [kind |-> "none", a |-> 0, f |-> 0]
RangeSel(a, f) == [kind |-> "range", a |-> a, f |-> f]

\* api.selection.findParentTag(tagName, className): from the anchor node and
\* then from the focus node, climb at most SearchDepth nodes looking for the
\* tag with the class; 0 stands for null
RECURSIVE Climb(_, _, _, _, _, _)
Climb(d, chain, depth, tagName, className, parentTag) ==
    IF depth = 0 \/ chain = <<>> THEN parentTag
    ELSE LET parent == d[Head(chain)]
         IN  IF parent.k = "eo" /\ parent.tag = tagName
             THEN IF ~HasClass(parent, className)
                  THEN Climb(d, Tail(chain), depth - 1, tagName, className, 0)
                  ELSE Head(chain)
             ELSE Climb(d, Tail(chain), depth - 1, tagName, className, parentTag)

FindParentTag(d, s, tagName, className) ==
    IF s.kind # "range" THEN 0
    ELSE LET fromAnchor == Climb(d, Reverse(Stack(d, s.a)), SearchDepth,
                                 tagName, className, 0)
         IN  Climb(d, Reverse(Stack(d, s.f)), SearchDepth, tagName, className, fromAnchor)

\* api.selection.expandToTag(element): the selection becomes one range over
\* the element's content.  w = 0 is an element that is not in the document:
\* Selection.addRange ignores a range outside the document, so no range is
\* left.  Without a selection object there is nothing to expand.
ExpandToTag(d, s, w) ==
    IF s.kind = "null" THEN s
    ELSE IF w = 0 THEN NoRange
    ELSE RangeSel(w, CloseAt(d, w) - 1)

(* ----------------------------- Underline ------------------------------ *)
\* a wrapper without the class
NewWrapperNoClass == ElOpen(tag, {})

\* the element wrap() creates: createElement(this.tag), classList.add(CSS)
NewWrapper == ElOpen(tag, {<<"class", CSS>>})

\* wrap(range): the document and the selection afterwards
Wrap(d, s, rs, re) ==
    LET x == ExtractContents(d, rs, re)
        u == <<NewWrapper>> \o x.frag \o <<ElClose(tag)>>
        y == InsertNode(x.doc, x.point, u)
    IN  [doc |-> y.doc, sel |-> ExpandToTag(y.doc, s, y.at), out |-> "wrap"]

\* unwrap that leaves out expandToTag when the selection lies in the wrapper
UnwrapSelected(d, s, w) ==
    LET inside == s.kind = "range" /\ w # 0 /\ w <= Min(s.a, s.f)
                    /\ Max(s.a, s.f) < CloseAt(d, w)
        s1 == IF inside THEN s ELSE ExpandToTag(d, s, w)
    IN  IF s1.kind = "null" THEN [doc |-> d, sel |-> s1, out |-> "noSelection"]
        ELSE IF s1.kind = "none" THEN [doc |-> d, sel |-> s1, out |-> "threw"]
        ELSE LET x == ExtractContents(d, Min(s1.a, s1.f), Max(s1.a, s1.f))
                 d2 == RemoveChild(x.doc, w)
                 y == InsertNode(d2, AfterRemove(x.doc, w, x.point), x.frag)
             IN  [doc |-> y.doc, sel |-> RangeSel(y.s, y.e), out |-> "unwrap"]

\* unwrap(termWrapper): the document, the selection and the outcome
Unwrap(d, s, w) ==
    LET s1 == ExpandToTag(d, s, w)
    IN  IF s1.kind = "null" THEN [doc |-> d, sel |-> s1, out |-> "noSelection"]
        ELSE IF s1.kind = "none" THEN [doc |-> d, sel |-> s1, out |-> "threw"]
        ELSE LET x == ExtractContents(d, Min(s1.a, s1.f), Max(s1.a, s1.f))
                 d2 == RemoveChild(x.doc, w)
                 y == InsertNode(d2, AfterRemove(x.doc, w, x.point), x.frag)
             IN  [doc |-> y.doc, sel |-> RangeSel(y.s, y.e), out |-> "unwrap"]

\* surround(range), the range being the selection's: the guard on the range
\* is in the actions
SurroundResult(d, s) ==
    LET termWrapper == FindParentTag(d, s, tag, CSS)
    IN  IF termWrapper # 0 THEN Unwrap(d, s, termWrapper)
        ELSE Wrap(d, s, Min(s.a, s.f), Max(s.a, s.f))

\* checkState(): the value returned
CheckStateResult(d, s) == FindParentTag(d, s, tag, CSS) # 0

\* classList.toggle(token, force)
Toggle(classes, token, force) == IF force THEN classes \cup {token} ELSE classes \ {token}

\* a rule keyed by the tag name as the tool holds it
sanitizeByTag == [U |-> [class |-> CSS]]

\* static get sanitize()
sanitize == [u |-> [class |-> CSS]]

\* the host sanitizer applying a rule to one element: a tag the rule does
\* not name is dropped; of a named tag, an attribute stays only if the rule
\* names it with the value it has
ToLower(t) == CASE t = "U" -> "u" [] t = "B" -> "b" [] OTHER -> t
Removed == [tag |-> "", attrs |-> {}]
Clean(rule, el) ==
    IF ToLower(el.tag) \notin DOMAIN rule THEN Removed
    ELSE LET allowed == rule[ToLower(el.tag)]
         IN  [tag |-> el.tag,
              attrs |-> {a \in el.attrs : a[1] \in DOMAIN allowed /\ allowed[a[1]] = a[2]}]

(* ------------------------------ states -------------------------------- *)
Str(cs) == <<TextOpen>> \o [i \in 1..Len(cs) |-> Ch(cs[i])] \o <<TextClose>>

\* the block the editor starts with: one Text node
InitDocs == { Str(<<"a", "b", "c">>) }

NoElement == [tag |-> "", attrs |-> {}]

Init ==
    /\ doc \in InitDocs
    /\ sel = NoRange
    /\ buttons = <<>>
    /\ button = 0
    /\ last = "init"
    /\ ret = FALSE
    /\ pre = <<>>
    /\ picked = <<>>
    /\ prev = "none"
    /\ stale = FALSE
    /\ ops = 0
    /\ sanIn = NoElement
    /\ sanOut = NoElement

Forget == pre' = <<>> /\ picked' = <<>> /\ prev' = "none"

\* the gaps inside Text nodes, where a user's selection starts and ends
TextGaps(d) ==
    {g \in 1..Len(d) : LET st == Stack(d, g) IN st # <<>> /\ d[st[Len(st)]].k = "to"}

\* The user selects text from gap a to gap f, in either direction.  The
\* inline toolbar is offered for a selection that is not collapsed.
\* Successive selection changes amount to the last one.
Select ==
    /\ last \notin {"select", "deselect"}
    /\ \E a, f \in TextGaps(doc) :
        /\ a # f
        /\ sel' = RangeSel(a, f)
    /\ last' = "select"
    /\ Forget
    /\ UNCHANGED <<doc, buttons, button, ret, stale, ops, sanIn, sanOut>>

\* the selection loses its range, or the window has no selection object
Deselect ==
    /\ last \notin {"select", "deselect"}
    /\ \E s \in {NullSel, NoRange} : sel' = s
    /\ last' = "deselect"
    /\ Forget
    /\ UNCHANGED <<doc, buttons, button, ret, stale, ops, sanIn, sanOut>>

\* render() that keeps the button it has
RenderKeepFirst ==
    /\ Len(buttons) < MaxRenders
    /\ buttons' = Append(buttons, {iconClasses.base})
    /\ button' = (IF button = 0 THEN 1 ELSE button)
    /\ last' = "render"
    /\ Forget
    /\ UNCHANGED <<doc, sel, ret, stale, ops, sanIn, sanOut>>

\* render()
Render ==
    /\ Len(buttons) < MaxRenders
    /\ buttons' = Append(buttons, {iconClasses.base})
    /\ button' = Len(buttons) + 1
    /\ last' = "render"
    /\ Forget
    /\ UNCHANGED <<doc, sel, ret, stale, ops, sanIn, sanOut>>

\* surround(null): the host has no range to pass
SurroundNull ==
    /\ sel.kind # "range"
    /\ last' = "surroundNull"
    /\ pre' = doc
    /\ picked' = <<>>
    /\ prev' = "none"
    /\ UNCHANGED <<doc, sel, buttons, button, ret, stale, ops, sanIn, sanOut>>

\* surround(range) with the selection's range
Surround ==
    /\ sel.kind = "range"
    /\ ops < MaxOps
    /\ LET r == SurroundResult(doc, sel)
       IN  /\ doc' = r.doc
           /\ sel' = r.sel
           /\ last' = r.out
           /\ stale' = (stale \/ r.out = "unwrap")
    /\ pre' = doc
    /\ picked' = Text(SubSeq(doc, Min(sel.a, sel.f) + 1, Max(sel.a, sel.f)))
    /\ prev' = (IF last \in {"wrap", "unwrap"} THEN last ELSE "none")
    /\ ops' = ops + 1
    /\ UNCHANGED <<buttons, button, ret, sanIn, sanOut>>

\* unwrap(termWrapper) called while the selection has no range: with a
\* wrapper of the document, or (w = 0) with one that unwrap removed before
UnwrapCall ==
    /\ sel.kind # "range"
    /\ ops < MaxOps
    /\ \E w \in Wrappers(doc) \cup (IF stale THEN {0} ELSE {}) :
         LET r == Unwrap(doc, sel, w)
         IN  /\ doc' = r.doc
             /\ sel' = r.sel
             /\ last' = (CASE r.out = "unwrap" -> "unwrapCall"
                           [] r.out = "noSelection" -> "unwrapReturned"
                           [] r.out = "threw" -> "unwrapThrew")
             /\ stale' = (stale \/ r.out = "unwrap")
             /\ ops' = (IF r.out = "unwrap" THEN ops + 1 ELSE ops)
    /\ pre' = doc
    /\ picked' = <<>>
    /\ prev' = "none"
    /\ UNCHANGED <<buttons, button, ret, sanIn, sanOut>>

\* classList.toggle(active) without the force argument
CheckStateButtonsFlip(bs, b, found) ==
    IF b = 0 THEN bs
    ELSE [bs EXCEPT ![b] = Toggle(@, iconClasses.active, iconClasses.active \notin @)]

\* the buttons after this.button?.classList.toggle(active, found)
CheckStateButtons(bs, b, found) ==
    IF b = 0 THEN bs
    ELSE [bs EXCEPT ![b] = Toggle(@, iconClasses.active, found)]

\* checkState()
CheckState ==
    /\ ret' = CheckStateResult(doc, sel)
    /\ buttons' = CheckStateButtons(buttons, button, CheckStateResult(doc, sel))
    /\ last' = "checkState"
    /\ Forget
    /\ UNCHANGED <<doc, sel, button, stale, ops, sanIn, sanOut>>

\* The document under the user's selections and the host's calls of
\* surround and unwrap.
Next == Select \/ Deselect \/ SurroundNull \/ Surround \/ UnwrapCall

Spec == Init /\ [][Next]_vars

(* ------------------------------ toolbar ------------------------------- *)
\* The toolbar over a document the tool has left behind: the starting
\* block, or the block after one wrap of a selection of it.
UIDocs ==
    InitDocs \cup
    UNION {{Wrap(d, RangeSel(r[1], r[2]), r[1], r[2]).doc :
               r \in {x \in TextGaps(d) \X TextGaps(d) : x[1] < x[2]}} : d \in InitDocs}

UIInit ==
    /\ doc \in UIDocs
    /\ sel = NoRange
    /\ buttons = <<>>
    /\ button = 0
    /\ last = "init"
    /\ ret = FALSE
    /\ pre = <<>>
    /\ picked = <<>>
    /\ prev = "none"
    /\ stale = FALSE
    /\ ops = 0
    /\ sanIn = NoElement
    /\ sanOut = NoElement

UINext == Select \/ Deselect \/ Render \/ CheckState

UISpec == UIInit /\ [][UINext]_vars

(* ----------------------- the sanitizer's inputs ----------------------- *)
SanAttrs == {<<"class", CSS>>, <<"class", "other">>, <<"onclick", "x">>,
             <<"id", "y">>, <<"style", "z">>, <<"href", "h">>}
SanInputs ==
    {[tag |-> t, attrs |-> a] : t \in {"U", "B"},
        a \in {x \in SUBSET SanAttrs : Cardinality({y \in x : y[1] = "class"}) <= 1}}

SanInit ==
    /\ doc \in InitDocs
    /\ sel = NoRange
    /\ buttons = <<>>
    /\ button = 0
    /\ last = "init"
    /\ ret = FALSE
    /\ pre = <<>>
    /\ picked = <<>>
    /\ prev = "none"
    /\ stale = FALSE
    /\ ops = 0
    /\ sanIn \in SanInputs
    /\ sanOut = NoElement

\* the host sanitizes saved content with the tool's rule
Sanitize ==
    /\ last = "init"
    /\ sanOut' = Clean(sanitize, sanIn)
    /\ last' = "sanitize"
    /\ UNCHANGED <<doc, sel, buttons, button, ret, pre, picked, prev, stale, ops, sanIn>>

SanNext == Sanitize

SanSpec == SanInit /\ [][SanNext]_vars

(* ============================ properties ============================== *)
U_OPEN == [k |-> "eo", tag |-> "U", attrs |-> {<<"class", "cdx-underline">>}]
U_CLOSE == [k |-> "ec", tag |-> "U", attrs |-> {}]
ACTIVE == "ce-inline-tool--active"
BASE == "ce-inline-tool"

\* innerHTML: Text node boundaries do not show
NotTextBoundary(t) == t.k \notin {"to", "tc"}
Html(d) == SelectSeq(d, NotTextBoundary)

\* u elements of the tool in d, counted on the literal tag and class
UElements(d) == {p \in 1..Len(d) : d[p] = U_OPEN}

\* the wrappers of d that enclose gap g
Enclosing(d, g) == {p \in UElements(d) : p <= g /\ g < CloseAt(d, p)}

SurroundStep == last' \in {"wrap", "unwrap"}

\* C1: surround, then surround again on the resulting selection, leaves the
\* document as it was before the first call: the same text, and every
\* character underlined as it was before.
C1_IdempotentToggle ==
    [][(last \in {"wrap", "unwrap"} /\ SurroundStep)
         => (Text(doc') = Text(pre) /\ Underlined(doc') = Underlined(pre))]_vars

\* C2: wrap followed by unwrap of the wrapper it created leaves the text of
\* the document exactly as it was before the wrap.
C2_RoundTrip ==
    [][(last = "wrap" /\ last' = "unwrap") => Text(doc') = Text(pre)]_vars

C2_Witness ==
    /\ prev = "wrap"
    /\ last = "unwrap"
    /\ Text(SubSeq(doc, sel.a + 1, sel.f)) # <<>>
    /\ Text(doc) = <<"a", "b", "c">>

\* C3: after wrap, checkState is true for every selection inside the wrapped
\* span; after unwrap, checkState is false for the selection over the span.
C3_MutualExclusion ==
    /\ last = "wrap" =>
         \A a, f \in sel.a..sel.f : CheckStateResult(doc, RangeSel(a, f))
    /\ last = "unwrap" => ~CheckStateResult(doc, sel)

\* C4: surround(null), and unwrap without a selection or without a range,
\* do not throw and leave the document as it was.
C4_NullSafety ==
    last \in {"surroundNull", "unwrapReturned", "unwrapThrew"}
        => (last # "unwrapThrew" /\ doc = pre)

\* C5: no underline wrapper lies inside another underline wrapper.
C5_SingleWrapper ==
    \A g \in 0..Len(doc) : Cardinality(Enclosing(doc, g)) <= 1

\* C6: wrap puts exactly one new <u class="cdx-underline"> where the range
\* was, with the selected content as its children, leaves what is before and
\* after as it was, and the selection becomes the content of the new element.
C6_WrapResult ==
    [][last' = "wrap" =>
        LET s == Min(sel.a, sel.f)
            e == Max(sel.a, sel.f)
            w == sel'.a
        IN  /\ Html(doc') = Html(SubSeq(doc, 1, s)) \o <<U_OPEN>>
                              \o Html(SubSeq(doc, s + 1, e)) \o <<U_CLOSE>>
                              \o Html(SubSeq(doc, e + 1, Len(doc)))
            /\ doc'[w] = U_OPEN
            /\ Html(SubSeq(doc', 1, w - 1)) = Html(SubSeq(doc, 1, s))
            /\ sel' = RangeSel(w, CloseAt(doc', w) - 1)
            /\ Cardinality(UElements(doc')) = Cardinality(UElements(doc)) + 1]_vars

\* "b" of "abc" was selected: a<u class="cdx-underline">b</u>c
C6_Witness ==
    /\ last = "wrap"
    /\ picked = <<"b">>
    /\ Html(pre) = <<Ch("a"), Ch("b"), Ch("c")>>
    /\ Html(doc) = <<Ch("a"), U_OPEN, Ch("b"), U_CLOSE, Ch("c")>>
    /\ Html(SubSeq(doc, sel.a + 1, sel.f)) = <<Ch("b")>>

\* C9: unwrap removes the whole wrapper around the selection, puts all of
\* its content in its place in the same order, and the selection is then
\* one range over that content.
C9_UnwrapWhole ==
    [][last' = "unwrap" =>
        \E w \in Enclosing(doc, sel.a) \cup Enclosing(doc, sel.f) :
            LET q == CloseAt(doc, w)
            IN  /\ doc' = SubSeq(doc, 1, w - 1) \o SubSeq(doc, w + 1, q - 1)
                            \o SubSeq(doc, q + 1, Len(doc))
                /\ sel' = RangeSel(w - 1, q - 2)]_vars

\* "a" was selected inside <u>ab</u>; the whole of "ab" is unwrapped
C9_Witness ==
    /\ last = "unwrap"
    /\ picked = <<"a">>
    /\ Html(pre) = <<U_OPEN, Ch("a"), Ch("b"), U_CLOSE, Ch("c")>>
    /\ Html(doc) = <<Ch("a"), Ch("b"), Ch("c")>>
    /\ Text(SubSeq(doc, sel.a + 1, sel.f)) = <<"a", "b">>

(* ------------------------------ toolbar ------------------------------- *)
CheckStateStep == last' = "checkState"

\* C8: checkState returns whether findParentTag('U', 'cdx-underline') finds
\* a wrapper for the selection, leaves the button with the active class
\* exactly when it returns true, and changes neither document nor selection.
C8_PureObserver ==
    [][CheckStateStep =>
        /\ ret' = (FindParentTag(doc, sel, "U", "cdx-underline") # 0)
        /\ button # 0 => ((ACTIVE \in buttons'[button]) <=> ret')
        /\ doc' = doc
        /\ sel' = sel
        /\ button' = button]_vars

C8_Witness ==
    /\ last = "checkState"
    /\ ret
    /\ button # 0
    /\ ACTIVE \in buttons[button]
    /\ UElements(doc) # {}

\* C10: render makes a new button with the base class only and the tool
\* keeps that one; checkState touches no button but the one rendered last,
\* and before any render it returns the right value and has no button to touch.
C10_ButtonOwnership ==
    [][/\ last' = "render" =>
            /\ buttons' = Append(buttons, {BASE})
            /\ ACTIVE \notin buttons'[Len(buttons')]
            /\ button' = Len(buttons')
       /\ CheckStateStep =>
            /\ button = Len(buttons)
            /\ Len(buttons') = Len(buttons)
            /\ \A i \in 1..Len(buttons) : i # Len(buttons) => buttons'[i] = buttons[i]
            /\ buttons = <<>> =>
                 /\ buttons' = <<>>
                 /\ ret' = (Enclosing(doc, sel.a) \cup Enclosing(doc, sel.f) # {}
                              /\ sel.kind = "range")]_vars

\* the first button kept the active class it had; the second one is current
C10_Witness ==
    /\ last = "checkState"
    /\ Len(buttons) = 2
    /\ button = 2
    /\ ACTIVE \in buttons[1]
    /\ ACTIVE \notin buttons[2]
    /\ ~ret

(* ----------------------------- sanitizer ------------------------------ *)
\* C7: the rule is { u: { class: 'cdx-underline' } }: of a u element the
\* sanitizer keeps the class attribute cdx-underline and strips every other
\* attribute, and the element wrap() creates passes unchanged.
C7_SanitizeRule ==
    /\ sanitize = [u |-> [class |-> "cdx-underline"]]
    /\ DOMAIN sanitize = {ToLower(tag)}
    /\ Clean(sanitize, [tag |-> NewWrapper.tag, attrs |-> NewWrapper.attrs])
         = [tag |-> "U", attrs |-> {<<"class", "cdx-underline">>}]
    /\ (last = "sanitize" /\ sanIn.tag = "U") =>
         /\ sanOut.tag = "U"
         /\ sanOut.attrs = sanIn.attrs \cap {<<"class", "cdx-underline">>}

\* <u class="cdx-underline" onclick="x"> became <u class="cdx-underline">
C7_Witness ==
    /\ last = "sanitize"
    /\ sanIn = [tag |-> "U", attrs |-> {<<"class", "cdx-underline">>, <<"onclick", "x">>}]
    /\ sanOut = [tag |-> "U", attrs |-> {<<"class", "cdx-underline">>}]

====
